---- MODULE Spec2Model ----
(***************************************************************************)
(* EyeCare-Web: the phase clock (timer store + requestAnimationFrame       *)
(* engine hook) and the events it publishes.                               *)
(*                                                                         *)
(* Time is counted in milliseconds (the unit of performance.now()).  The   *)
(* store keeps elapsedTime in seconds as a float (delta / 1000); the model *)
(* keeps the same quantity multiplied by MsPerSecond, so every comparison  *)
(* with a duration is exact.                                               *)
(***************************************************************************)
EXTENDS Integers, Sequences, FiniteSets, TLC

\* ---------------------------------------------------------------- bounds
MaxSteps == 6             \* stimuli (commands, callbacks, waits) per run

\* ------------------------------------------------------- program constants
WORK_DURATION   == 1200   \* seconds
BREAK_DURATION  == 20     \* seconds
UPDATE_INTERVAL == 100    \* milliseconds
MsPerSecond     == 1000

\* TimerMode
IDLE           == "IDLE"
WORKING        == "WORKING"
BREAK_REMINDER == "BREAK_REMINDER"
PAUSED         == "PAUSED"
TimerMode      == {IDLE, WORKING, BREAK_REMINDER, PAUSED}

\* currentPhase: 'work' | 'break' | null
PhaseWork  == "work"
PhaseBreak == "break"
PhaseNull  == "null"

\* TimerEventType
WORK_START     == "WORK_START"
WORK_COMPLETE  == "WORK_COMPLETE"
BREAK_START    == "BREAK_START"
BREAK_COMPLETE == "BREAK_COMPLETE"

\* startTimestamp: number | null, as a sequence of length 0 or 1
NullStamp == << >>
Stamp(t)  == << t >>

\* Real time that can pass between two stimuli: less than the update
\* threshold, a whole break, a whole work interval.
ShortGap == UPDATE_INTERVAL - 40
Gaps     == {ShortGap, BREAK_DURATION * MsPerSecond, WORK_DURATION * MsPerSecond}

\* Time between a store update and the performance.now() read by the effect
\* that the resulting re-render runs.
Latency == {0, 1}

VARIABLES
  now,          \* performance.now()
  timer,        \* the timer store's state
  engine,       \* the refs of useTimerEngine
  published,    \* every event handed to timerEventEmitter.emit, in order
  op,           \* the stimulus handled last
  prevOp,       \* the stimulus handled before it
  steps,        \* number of stimuli so far
  edges,        \* number of mode transitions seen, per kind
  phaseReal,    \* real time spent running in the current phase, up to now
  atPause,      \* the clock as pause() found it when it last left a
                \* mode other than Paused
  observed,     \* for every published event, the stores as a subscriber
                \* reading them during emit finds them
  exercise,     \* the exercise store's state
  timeouts,     \* the pending setTimeout callbacks, in creation order
  timeoutId,    \* the handle the next setTimeout returns
  orch,         \* the refs of useExerciseOrchestrator
  bus,          \* an EventEmitter: its listeners and its last emit
  aux           \* what the activity has been through, for the properties

clockVars == <<timer, engine, edges, phaseReal, atPause>>
activityVars == <<exercise, timeouts, timeoutId, orch, aux>>

vars == <<now, timer, engine, published, op, prevOp, steps, edges,
          phaseReal, atPause, observed, exercise, timeouts, timeoutId,
          orch, bus, aux>>

Running(mode) == mode \in {WORKING, BREAK_REMINDER}

\* ------------------------------------------------------------ timer store
InitialTimer ==
  [timerMode      |-> IDLE,
   isRunning      |-> FALSE,
   elapsedTime    |-> 0,
   sessionCount   |-> 0,
   currentPhase   |-> PhaseNull,
   startTimestamp |-> NullStamp]

startWork(s, t) ==
  [s EXCEPT !.timerMode      = WORKING,
            !.isRunning      = TRUE,
            !.currentPhase   = PhaseWork,
            !.elapsedTime    = 0,
            !.startTimestamp = Stamp(t)]

\* pauseTimer as a toggle: a second call undoes the first.
pauseTimerToggle(s, t) ==
  IF s.timerMode = PAUSED
    THEN [s EXCEPT !.timerMode = IF s.currentPhase = PhaseWork
                                   THEN WORKING ELSE BREAK_REMINDER,
                   !.isRunning = TRUE]
    ELSE [s EXCEPT !.timerMode = PAUSED, !.isRunning = FALSE]

pauseTimer(s, t) ==
  [s EXCEPT !.timerMode   = PAUSED,
            !.isRunning   = FALSE,
            !.elapsedTime = s.elapsedTime]

\* resumeTimer restarting the phase instead of continuing it.
resumeTimerRestarts(s, t) ==
  [s EXCEPT !.timerMode      = IF s.currentPhase = PhaseWork
                                 THEN WORKING ELSE BREAK_REMINDER,
            !.isRunning      = TRUE,
            !.elapsedTime    = 0,
            !.startTimestamp = Stamp(t)]

resumeTimer(s, t) ==
  [s EXCEPT !.timerMode      = IF s.currentPhase = PhaseWork
                                 THEN WORKING ELSE BREAK_REMINDER,
            !.isRunning      = TRUE,
            !.startTimestamp = Stamp(t)]

\* resetTimer that forgets to clear startTimestamp.
resetTimerKeepsAnchor(s, t) ==
  [s EXCEPT !.timerMode    = IDLE,
            !.isRunning    = FALSE,
            !.currentPhase = PhaseNull,
            !.elapsedTime  = 0]

resetTimer(s, t) ==
  [s EXCEPT !.timerMode      = IDLE,
            !.isRunning      = FALSE,
            !.currentPhase   = PhaseNull,
            !.elapsedTime    = 0,
            !.startTimestamp = NullStamp]

updateElapsedTime(s, elapsed) ==
  [s EXCEPT !.elapsedTime = elapsed]

\* transitionToBreak that credits the break with the time measured beyond
\* the work target.
transitionToBreakCarriesOvershoot(s, t) ==
  IF s.timerMode = WORKING
    THEN [s EXCEPT !.timerMode      = BREAK_REMINDER,
                   !.currentPhase   = PhaseBreak,
                   !.elapsedTime    = @ - WORK_DURATION * MsPerSecond,
                   !.startTimestamp = Stamp(t)]
    ELSE s

\* transitionToBreak that carries the work elapsed time into the break.
transitionToBreakKeepsElapsed(s, t) ==
  IF s.timerMode = WORKING
    THEN [s EXCEPT !.timerMode      = BREAK_REMINDER,
                   !.currentPhase   = PhaseBreak,
                   !.startTimestamp = Stamp(t)]
    ELSE s

transitionToBreak(s, t) ==
  IF s.timerMode = WORKING
    THEN [s EXCEPT !.timerMode      = BREAK_REMINDER,
                   !.currentPhase   = PhaseBreak,
                   !.elapsedTime    = 0,
                   !.startTimestamp = Stamp(t)]
    ELSE s

transitionToIdle(s) ==
  IF s.timerMode = BREAK_REMINDER
    THEN [s EXCEPT !.timerMode      = IDLE,
                   !.isRunning      = FALSE,
                   !.currentPhase   = PhaseNull,
                   !.elapsedTime    = 0,
                   !.startTimestamp = NullStamp,
                   !.sessionCount   = s.sessionCount + 1]
    ELSE [s EXCEPT !.timerMode      = IDLE,
                   !.isRunning      = FALSE,
                   !.currentPhase   = PhaseNull,
                   !.elapsedTime    = 0,
                   !.startTimestamp = NullStamp]

\* ------------------------------------------------------- useTimerEngine
Event(type, duration, sessionId, phase) ==
  [type |-> type, duration |-> duration, sessionId |-> sessionId,
   phase |-> phase]

InitialEngine ==
  [lastUpdateRef      |-> 0,
   accumulatedTimeRef |-> 0,
   animationFrame     |-> FALSE]   \* a frame callback is pending

\* The dependency list of the effect (the store's functions never change).
EffectDeps(s) ==
  <<s.isRunning, s.timerMode, s.startTimestamp, s.currentPhase,
    s.sessionCount, s.elapsedTime>>

maxDuration(s) ==
  IF s.currentPhase = PhaseWork THEN WORK_DURATION ELSE BREAK_DURATION

\* The effect after a render: prev is the store state of the previous
\* render, s the state now rendered, e the refs, t the value of
\* performance.now() when the effect body runs.  When a dependency has
\* changed, the cleanup of the previous run cancels the pending frame and
\* the body runs again.
RunEffect(prev, s, e, t) ==
  IF EffectDeps(prev) = EffectDeps(s)
    THEN [engine |-> e, emitted |-> << >>, seen |-> << >>]
    ELSE IF ~s.isRunning \/ s.startTimestamp = NullStamp
              \/ s.startTimestamp = Stamp(0)      \* !startTimestamp
      THEN [engine  |-> [e EXCEPT !.animationFrame = FALSE],
            emitted |-> << >>, seen |-> << >>]
      ELSE [engine  |-> [lastUpdateRef      |-> t,
                         accumulatedTimeRef |-> s.elapsedTime,
                         animationFrame     |-> TRUE],
            emitted |-> IF s.timerMode = WORKING /\ s.elapsedTime = 0
                          THEN << Event(WORK_START, WORK_DURATION,
                                        s.sessionCount, PhaseWork) >>
                          ELSE << >>,
            seen    |-> IF s.timerMode = WORKING /\ s.elapsedTime = 0
                          THEN << s >> ELSE << >>]

\* One frame callback (updateTimer) at performance.now() = t, with the
\* store state s of the render that created the callback and the refs e.
\* Yields the store state, the refs, the events emitted and, for each of
\* them, the store state at the moment of its emit.
updateTimerEmitsFirst(s, e, t) ==
  LET delta == t - e.lastUpdateRef
      acc   == e.accumulatedTimeRef + delta
      s1    == updateElapsedTime(s, acc)
  IN
  IF delta < UPDATE_INTERVAL
    THEN [timer |-> s, engine |-> [e EXCEPT !.animationFrame = TRUE],
          emitted |-> << >>, seen |-> << >>]
  ELSE IF acc >= maxDuration(s) * MsPerSecond /\ s.timerMode = WORKING
    THEN [timer   |-> transitionToBreak(s1, t),
          engine  |-> [lastUpdateRef      |-> t,
                       accumulatedTimeRef |-> 0,
                       animationFrame     |-> TRUE],
          emitted |-> << Event(WORK_COMPLETE, WORK_DURATION,
                               s.sessionCount, PhaseWork),
                         Event(BREAK_START, BREAK_DURATION,
                               s.sessionCount, PhaseBreak) >>,
          seen    |-> << s1, s1 >>]
  ELSE IF acc >= maxDuration(s) * MsPerSecond
            /\ s.timerMode = BREAK_REMINDER
    THEN [timer   |-> transitionToIdle(s1),
          engine  |-> [e EXCEPT !.accumulatedTimeRef = acc,
                                !.animationFrame     = FALSE],
          emitted |-> << Event(BREAK_COMPLETE, BREAK_DURATION,
                               s.sessionCount + 1, PhaseBreak) >>,
          seen    |-> << s1 >>]
  ELSE [timer   |-> s1,
        engine  |-> [lastUpdateRef      |-> t,
                     accumulatedTimeRef |-> acc,
                     animationFrame     |-> TRUE],
        emitted |-> << >>, seen |-> << >>]

updateTimer(s, e, t) ==
  LET delta == t - e.lastUpdateRef
      acc   == e.accumulatedTimeRef + delta
      s1    == updateElapsedTime(s, acc)
      inBreak == transitionToBreak(s1, t)
      inIdle  == transitionToIdle(s1)
  IN
  IF delta < UPDATE_INTERVAL
    THEN [timer |-> s, engine |-> [e EXCEPT !.animationFrame = TRUE],
          emitted |-> << >>, seen |-> << >>]
  ELSE IF acc >= maxDuration(s) * MsPerSecond /\ s.timerMode = WORKING
    THEN [timer   |-> inBreak,
          engine  |-> [lastUpdateRef      |-> t,
                       accumulatedTimeRef |-> 0,
                       animationFrame     |-> TRUE],
          emitted |-> << Event(WORK_COMPLETE, WORK_DURATION,
                               s.sessionCount, PhaseWork),
                         Event(BREAK_START, BREAK_DURATION,
                               s.sessionCount, PhaseBreak) >>,
          seen    |-> << inBreak, inBreak >>]
  ELSE IF acc >= maxDuration(s) * MsPerSecond
            /\ s.timerMode = BREAK_REMINDER
    THEN [timer   |-> inIdle,
          engine  |-> [e EXCEPT !.accumulatedTimeRef = acc,
                                !.animationFrame     = FALSE],
          emitted |-> << Event(BREAK_COMPLETE, BREAK_DURATION,
                               s.sessionCount + 1, PhaseBreak) >>,
          seen    |-> << inIdle >>]
  ELSE [timer   |-> s1,
        engine  |-> [lastUpdateRef      |-> t,
                     accumulatedTimeRef |-> acc,
                     animationFrame     |-> TRUE],
        emitted |-> << >>, seen |-> << >>]

\* getRemainingTime: whole seconds, rounded up
getRemainingTime(s) ==
  LET remaining == maxDuration(s) * MsPerSecond - s.elapsedTime
      clipped   == IF remaining < 0 THEN 0 ELSE remaining
  IN (clipped + MsPerSecond - 1) \div MsPerSecond

\* The digits of a number, padStart(2, '0') applied.
PadStart2(n) ==
  IF n < 10 THEN <<0, n>>
  ELSE IF n < 100 THEN <<n \div 10, n % 10>>
  ELSE <<n \div 100, (n \div 10) % 10, n % 10>>

\* MM:SS as the digits of the minutes and the digits of the seconds
formatTime(seconds) ==
  [mins |-> PadStart2(seconds \div 60), secs |-> PadStart2(seconds % 60)]

\* --------------------------------------------------------- exercise store
\* ExerciseType
BALL_TRACKING  == "ball_tracking"
NEAR_FAR_FOCUS == "near_far_focus"
BLINK_EXERCISE == "blink_exercise"
ExerciseType   == {BALL_TRACKING, NEAR_FAR_FOCUS, BLINK_EXERCISE}
NoExercise     == "null"          \* currentExercise: ExerciseType | null

\* ExerciseState
EX_IDLE       == "EX_IDLE"
EX_LAUNCHING  == "EX_LAUNCHING"
EX_RUNNING    == "EX_RUNNING"
EX_PAUSED     == "EX_PAUSED"
EX_COMPLETING == "EX_COMPLETING"
EX_COMPLETED  == "EX_COMPLETED"

\* SelectionState
RANDOMIZING     == "RANDOMIZING"
MANUAL_OVERRIDE == "MANUAL_OVERRIDE"
SELECTED        == "SELECTED"

EXERCISE_COMPLETE == "EXERCISE_COMPLETE"
PhaseExercise     == "exercise"

LAUNCH_DELAY     == 300    \* ms, launch animation
COMPLETION_DELAY == 500    \* ms, completion animation
AUTO_CLOSE_DELAY == 3000   \* ms, overlay auto-close after completion
manualSelectionWindowDuration == 3000
historySize      == 2
maxCompletions   == 100
maxHistorySize   == 50

DEFAULT_EXERCISE_PREFERENCES ==
  [preferredExercise     |-> NoExercise,
   autoLaunch            |-> TRUE,
   enableManualSelection |-> TRUE]

InitialExercise ==
  [currentExercise        |-> NoExercise,
   exerciseState          |-> EX_IDLE,
   selectionState         |-> RANDOMIZING,
   history                |-> << >>,
   completions            |-> << >>,
   preferences            |-> DEFAULT_EXERCISE_PREFERENCES,
   manualSelectionEndTime |-> NullStamp]

\* array.slice(-n)
SliceLast(seq, n) ==
  IF Len(seq) <= n THEN seq ELSE SubSeq(seq, Len(seq) - n + 1, Len(seq))

\* The exercise store together with the host's timer queue: w.x is the
\* store state, w.q the pending setTimeout callbacks in creation order,
\* w.id the handle the next setTimeout returns.
World(x, q, id) == [x |-> x, q |-> q, id |-> id]

\* setTimeout(callback, delay) at time t; exerciseType and endTime are the
\* values the callback closes over.
SetTimeout(w, kind, t, delay, exerciseType, endTime) ==
  [w EXCEPT !.q  = Append(@, [kind |-> kind, id |-> w.id, due |-> t + delay,
                              exerciseType |-> exerciseType,
                              endTime |-> endTime]),
            !.id = @ + 1]

selectExercise(w, exerciseType) ==
  [w EXCEPT !.x.currentExercise = exerciseType,
            !.x.selectionState  = IF exerciseType # NoExercise
                                    THEN SELECTED ELSE RANDOMIZING]

\* history.slice(0, historySize): the oldest entries are excluded instead
\* of the most recent ones
SelectionPoolOldest(history) ==
  LET oldHistory == SubSeq(history, 1,
                           IF Len(history) < historySize
                             THEN Len(history) ELSE historySize)
      availableExercises ==
        {e \in ExerciseType :
           \A i \in DOMAIN oldHistory : oldHistory[i] # e}
  IN IF availableExercises # {} THEN availableExercises ELSE ExerciseType

\* exerciseConfig.selectRandomExercise: the pool the random index is drawn
\* from.
SelectionPool(history) ==
  LET recentHistory == SliceLast(history, historySize)
      availableExercises ==
        {e \in ExerciseType :
           \A i \in DOMAIN recentHistory : recentHistory[i] # e}
  IN IF availableExercises # {} THEN availableExercises ELSE ExerciseType

\* pick is the member of the pool that Math.random() selects.
selectRandomExercise(w, pick) ==
  IF w.x.preferences.preferredExercise # NoExercise
    THEN [w EXCEPT !.x.currentExercise = w.x.preferences.preferredExercise,
                   !.x.selectionState  = SELECTED]
    ELSE [w EXCEPT !.x.currentExercise = pick,
                   !.x.selectionState  = SELECTED]

launchExercise(w, exerciseType, t) ==
  SetTimeout([w EXCEPT !.x.currentExercise = exerciseType,
                       !.x.exerciseState   = EX_LAUNCHING,
                       !.x.selectionState  = SELECTED],
             "launch", t, LAUNCH_DELAY, NoExercise, NullStamp)

\* the callback without its check of the state it finds
launchTimeoutUnchecked(w) ==
  [w EXCEPT !.x.exerciseState = EX_RUNNING]

\* the callback launchExercise schedules
launchTimeout(w) ==
  IF w.x.exerciseState = EX_LAUNCHING
    THEN [w EXCEPT !.x.exerciseState = EX_RUNNING]
    ELSE w

startExercise(w) == [w EXCEPT !.x.exerciseState = EX_RUNNING]

\* pause without its check of the state it finds
pauseExerciseAnyState(w) ==
  [w EXCEPT !.x.exerciseState = EX_PAUSED]

pauseExercise(w) ==
  IF w.x.exerciseState = EX_RUNNING
    THEN [w EXCEPT !.x.exerciseState = EX_PAUSED]
    ELSE w

resumeExercise(w) ==
  IF w.x.exerciseState = EX_PAUSED
    THEN [w EXCEPT !.x.exerciseState = EX_RUNNING]
    ELSE w

completeExercise(w, t) ==
  SetTimeout([w EXCEPT !.x.exerciseState = EX_COMPLETING],
             "complete", t, COMPLETION_DELAY, w.x.currentExercise, NullStamp)

\* slice(0, maxHistorySize): the overflow drops the newest entry
updateHistoryKeepsOldest(w, exerciseType) ==
  [w EXCEPT !.x.history =
              SubSeq(Append(@, exerciseType), 1,
                     IF Len(@) < maxHistorySize
                       THEN Len(@) + 1 ELSE maxHistorySize)]

updateHistory(w, exerciseType) ==
  [w EXCEPT !.x.history = SliceLast(Append(@, exerciseType), maxHistorySize)]

\* the callback completeExercise schedules; tm is the timer record
completeTimeout(w, tm) ==
  LET done == [w EXCEPT !.x.exerciseState = EX_COMPLETED]
  IN IF tm.exerciseType # NoExercise
       THEN updateHistory(done, tm.exerciseType)
       ELSE done

resetExercise(w) ==
  [w EXCEPT !.x.currentExercise        = NoExercise,
            !.x.exerciseState          = EX_IDLE,
            !.x.selectionState         = RANDOMIZING,
            !.x.manualSelectionEndTime = NullStamp]

trackCompletion(w, completion) ==
  [w EXCEPT !.x.completions =
              SliceLast(Append(@, completion), maxCompletions)]

enableManualSelectionWindow(w, t) ==
  LET endTime == Stamp(t + manualSelectionWindowDuration)
  IN SetTimeout([w EXCEPT !.x.manualSelectionEndTime = endTime,
                          !.x.selectionState         = MANUAL_OVERRIDE],
                "window", t, manualSelectionWindowDuration,
                NoExercise, endTime)

disableManualSelectionWindow(w) ==
  [w EXCEPT !.x.manualSelectionEndTime = NullStamp,
            !.x.selectionState         = SELECTED]

\* the callback picking at random whatever has been selected meanwhile
windowTimeoutAlwaysPicks(w, tm, pick) ==
  IF w.x.manualSelectionEndTime = tm.endTime
    THEN disableManualSelectionWindow(selectRandomExercise(w, pick))
    ELSE w

\* the callback without its comparison of the end time it closed over
windowTimeoutAnyWindow(w, tm, pick) ==
  IF w.x.selectionState = MANUAL_OVERRIDE
    THEN disableManualSelectionWindow(
           IF w.x.currentExercise = NoExercise
             THEN selectRandomExercise(w, pick) ELSE w)
    ELSE w

\* the callback enableManualSelectionWindow schedules
windowTimeout(w, tm, pick) ==
  IF w.x.manualSelectionEndTime = tm.endTime
       /\ w.x.selectionState = MANUAL_OVERRIDE
    THEN disableManualSelectionWindow(
           IF w.x.currentExercise = NoExercise
             THEN selectRandomExercise(w, pick) ELSE w)
    ELSE w

isExerciseActive(x) ==
  x.exerciseState \in {EX_RUNNING, EX_PAUSED, EX_LAUNCHING}

isManualSelectionAvailable(x, t) ==
  /\ x.selectionState = MANUAL_OVERRIDE
  /\ x.manualSelectionEndTime # NullStamp
  /\ Stamp(t) # x.manualSelectionEndTime
  /\ t < x.manualSelectionEndTime[1]

\* ExerciseOverlay.handleComplete: the exercise component reports that it
\* has finished.
handleComplete(w, t) ==
  SetTimeout(completeExercise(w, t), "autoclose", t, AUTO_CLOSE_DELAY,
             NoExercise, NullStamp)

\* the callback handleComplete schedules
autoCloseTimeout(w) == resetExercise(w)

\* ------------------------------------------------ useExerciseOrchestrator
InitialOrch ==
  [previousTimerMode   |-> IDLE,
   exerciseStartTime   |-> NullStamp,
   hasLaunchedForBreak |-> FALSE]

ExerciseEvent(duration, sessionId, exerciseType) ==
  [type |-> EXERCISE_COMPLETE, duration |-> duration,
   sessionId |-> sessionId, phase |-> PhaseExercise,
   exerciseType |-> exerciseType]

\* What one render of the hook reads from the two stores.
Render(tm, x) ==
  [timerMode        |-> tm.timerMode,
   sessionCount     |-> tm.sessionCount,
   currentExercise  |-> x.currentExercise,
   exerciseState    |-> x.exerciseState,
   isExerciseActive |-> isExerciseActive(x),
   preferences      |-> x.preferences]

\* Results of the hook's callbacks and effects: the refs o, the world w,
\* the events emitted and the exercise store as it is at each emit.
Outcome(o, w, emitted, seen) ==
  [orch |-> o, w |-> w, emitted |-> emitted, seen |-> seen]

handleBreakStart(o, w, r, t, pick) ==
  IF o.hasLaunchedForBreak THEN Outcome(o, w, << >>, << >>)
  ELSE LET o1 == [o EXCEPT !.hasLaunchedForBreak = TRUE]
           w1 == IF r.preferences.enableManualSelection
                   THEN enableManualSelectionWindow(w, t) ELSE w
       IN IF r.preferences.autoLaunch
            THEN Outcome(o1, selectRandomExercise(w1, pick), << >>, << >>)
            ELSE Outcome(o1, w, << >>, << >>)

\* Math.round((Date.now() - exerciseStartTime) / 1000)
RoundedSeconds(ms) == (2 * ms + MsPerSecond) \div (2 * MsPerSecond)

handleExerciseComplete(o, w, r, t) ==
  IF r.currentExercise = NoExercise \/ o.exerciseStartTime = NullStamp
       \/ o.exerciseStartTime = Stamp(0)
    THEN Outcome(o, w, << >>, << >>)
    ELSE LET duration == RoundedSeconds(t - o.exerciseStartTime[1])
             w1 == trackCompletion(w,
                     [exerciseType |-> r.currentExercise,
                      completionTimestamp |-> t,
                      duration |-> duration,
                      sessionId |-> r.sessionCount])
         IN Outcome([o EXCEPT !.exerciseStartTime = NullStamp], w1,
                    << ExerciseEvent(duration, r.sessionCount,
                                     r.currentExercise) >>,
                    << w1.x >>)

\* The effect listening to timer mode changes, for the render r, branch
\* by branch; prev is previousTimerMode.current and out the outcome of the
\* branches before.
breakStartedBranch(o, w, r, t, pick) ==
  IF r.timerMode = BREAK_REMINDER /\ o.previousTimerMode # BREAK_REMINDER
    THEN handleBreakStart(o, w, r, t, pick)
    ELSE Outcome(o, w, << >>, << >>)

breakEndedBranch(out, prev, r, t) ==
  IF r.timerMode = IDLE /\ prev = BREAK_REMINDER
    THEN Outcome([out.orch EXCEPT !.hasLaunchedForBreak = FALSE],
                 IF r.isExerciseActive
                   THEN completeExercise(out.w, t) ELSE out.w,
                 << >>, << >>)
    ELSE out

timerPausedBranch(out, prev, r) ==
  IF r.timerMode = PAUSED /\ prev # PAUSED
       /\ r.isExerciseActive /\ r.exerciseState = EX_RUNNING
    THEN [out EXCEPT !.w = pauseExercise(@)]
    ELSE out

timerResumedBranch(out, prev, r) ==
  IF r.timerMode # PAUSED /\ prev = PAUSED
       /\ r.isExerciseActive /\ r.exerciseState = EX_PAUSED
    THEN [out EXCEPT !.w = resumeExercise(@)]
    ELSE out

rememberTimerMode(out, r) ==
  [out EXCEPT !.orch.previousTimerMode = r.timerMode]

timerModeEffect(o, w, r, t, pick) ==
  rememberTimerMode(
    timerResumedBranch(
      timerPausedBranch(
        breakEndedBranch(breakStartedBranch(o, w, r, t, pick),
                         o.previousTimerMode, r, t),
        o.previousTimerMode, r),
      o.previousTimerMode, r),
    r)

\* The effect tracking the exercise start time.
startTimeEffect(o, r, t) ==
  IF r.exerciseState = EX_RUNNING
       /\ (o.exerciseStartTime = NullStamp \/ o.exerciseStartTime = Stamp(0))
    THEN [o EXCEPT !.exerciseStartTime = Stamp(t)]
    ELSE o

\* The effect handling exercise state changes.
completionEffect(o, w, r, t) ==
  IF r.exerciseState = EX_COMPLETED
    THEN handleExerciseComplete(o, w, r, t)
    ELSE Outcome(o, w, << >>, << >>)

\* The three effects of the render r that follows the render r0, in the
\* order of the hook, each run only when one of its dependencies differs
\* between the two renders.
timerModeStage(r0, r, o, w, t, pick) ==
  IF <<r.timerMode, r.isExerciseActive, r.exerciseState, r.preferences>>
       # <<r0.timerMode, r0.isExerciseActive, r0.exerciseState,
           r0.preferences>>
    THEN timerModeEffect(o, w, r, t, pick)
    ELSE Outcome(o, w, << >>, << >>)

startTimeStage(r0, r, out, t) ==
  IF r.exerciseState # r0.exerciseState
    THEN [out EXCEPT !.orch = startTimeEffect(@, r, t)]
    ELSE out

completionStage(r0, r, out, t) ==
  IF <<r.exerciseState, r.currentExercise, r.sessionCount>>
       # <<r0.exerciseState, r0.currentExercise, r0.sessionCount>>
    THEN completionEffect(out.orch, out.w, r, t)
    ELSE out

EffectsPass(r0, r, o, w, t, pick) ==
  completionStage(r0, r,
    startTimeStage(r0, r, timerModeStage(r0, r, o, w, t, pick), t), t)

\* The render of what the effects of the render r1 left (outcome p1), and
\* its effects.
SecondPass(r1, p1, tm, t, pick) ==
  EffectsPass(r1, Render(tm, p1.w.x), p1.orch, p1.w, t, pick)

Both(p1, p2) ==
  Outcome(p2.orch, p2.w, p1.emitted \o p2.emitted, p1.seen \o p2.seen)

SettleAfter(r1, p1, tm, t, pick) ==
  Both(p1, SecondPass(r1, p1, tm, t, pick))

\* Renders and effect runs until the stores are stable: the render of the
\* stores (tm, w.x) after the render of (tm0, x0), then the render of what
\* its effects changed.
RunEffects(tm0, x0, tm, o, w, t, pick) ==
  SettleAfter(Render(tm, w.x),
              EffectsPass(Render(tm0, x0), Render(tm, w.x), o, w, t, pick),
              tm, t, pick)

\* ------------------------------------------------------------ EventEmitter
\* Event kinds and listeners of the emitter under study.
BusTypes     == {WORK_COMPLETE, BREAK_START}
BusListeners == {"L1", "L2", "L3"}

\* listeners: per event type the Set of listeners, in insertion order.
\* last: the most recent emit, the listeners it invoked in order and how
\* the call ended.
InitialBus ==
  [listeners |-> [ty \in BusTypes |-> << >>],
   last      |-> [type |-> "none", invoked |-> << >>, threw |-> {},
                  outcome |-> "none"]]

\* Array.prototype.push: a listener added again is kept twice.
SetAddAgain(ls, l) == Append(ls, l)

\* Set.prototype.add: insertion order, no duplicates.
SetAdd(ls, l) ==
  IF \E i \in DOMAIN ls : ls[i] = l THEN ls ELSE Append(ls, l)

\* Set.prototype.delete
SetDelete(ls, l) == SelectSeq(ls, LAMBDA m : m # l)

subscribe(b, eventType, listener) ==
  [b EXCEPT !.listeners[eventType] = SetAdd(@, listener)]

unsubscribe(b, eventType, listener) ==
  [b EXCEPT !.listeners[eventType] = SetDelete(@, listener)]

\* forEach over the listeners ls with no try/catch around the call: the
\* first listener in `bad` ends the loop and its error leaves emit.
RECURSIVE ForEachUncaught(_, _)
ForEachUncaught(ls, bad) ==
  IF ls = << >>
    THEN [invoked |-> << >>, threw |-> {}, outcome |-> "returned"]
  ELSE IF Head(ls) \in bad
    THEN [invoked |-> << Head(ls) >>, threw |-> {Head(ls)},
          outcome |-> "threw"]
  ELSE LET rest == ForEachUncaught(Tail(ls), bad)
       IN [rest EXCEPT !.invoked = << Head(ls) >> \o @]

\* forEach over the listeners ls, each call inside try/catch; the
\* listeners in `bad` throw.
RECURSIVE ForEachCaught(_, _)
ForEachCaught(ls, bad) ==
  IF ls = << >>
    THEN [invoked |-> << >>, threw |-> {}, outcome |-> "returned"]
    ELSE LET rest == ForEachCaught(Tail(ls), bad)
         IN [rest EXCEPT !.invoked = << Head(ls) >> \o @,
                         !.threw = (IF Head(ls) \in bad
                                      THEN {Head(ls)} ELSE {}) \cup @]

emitWithoutCatch(b, eventType, bad) ==
  LET done == ForEachUncaught(b.listeners[eventType], bad)
  IN [b EXCEPT !.last = [type |-> eventType, invoked |-> done.invoked,
                         threw |-> done.threw, outcome |-> done.outcome]]

emit(b, eventType, bad) ==
  LET done == ForEachCaught(b.listeners[eventType], bad)
  IN [b EXCEPT !.last = [type |-> eventType, invoked |-> done.invoked,
                         threw |-> done.threw, outcome |-> done.outcome]]

\* What the run has been through, kept for the properties.
InitialAux ==
  [launchReset    |-> "none",   \* "launched" after a launch with no
                                \* timeout pending, "reset" once a reset
                                \* has followed it directly and no
                                \* command has been issued since
   resetMark      |-> 1,        \* timeoutId at the last resetExercise()
   breakReactions |-> 0,        \* runs of handleBreakStart past its latch
                                \* since the clock last entered a break
   fired          |-> "none",   \* kind of the timeout callback the last
                                \* step ran, if it ran one
   firedId        |-> 0,        \* and the handle of that timeout
   pausedBy       |-> "none",   \* who paused the Paused activity: "user"
                                \* (its own pause button) or "clock"
   run            |-> "idle",   \* the activity run: "live" once launched,
                                \* "signalled" once a Running run has
                                \* signalled its completion, "abandoned"
                                \* once a break timeout found it
                                \* Launching, Running or Paused
   manualPick     |-> "null",   \* the kind picked by hand while the
                                \* selection window was open, if it is
                                \* still the pick in force
   subscribed     |-> {},       \* the <<kind, listener>> subscriptions that
                                \* the calls of subscribe and unsubscribe
                                \* so far leave in force
   againSub       |-> FALSE,    \* a listener has subscribed to a kind it
                                \* was subscribed to
   againUnsub     |-> FALSE]    \* a listener has been unsubscribed from a
                                \* kind it was not subscribed to

NoTimeout == [kind |-> "none", id |-> 0]

\* ------------------------------------------------------------ bookkeeping
NoEdges == [idleToWorking |-> 0, workingToBreak |-> 0, breakTimeout |-> 0]

\* Count the mode transition from -> to made by the stimulus o.
CountEdge(c, from, to, o) ==
  [c EXCEPT
     !.idleToWorking  = @ + (IF from = IDLE /\ to = WORKING THEN 1 ELSE 0),
     !.workingToBreak = @ + (IF from = WORKING /\ to = BREAK_REMINDER
                               THEN 1 ELSE 0),
     !.breakTimeout   = @ + (IF from = BREAK_REMINDER /\ to = IDLE
                                  /\ o = "tick" THEN 1 ELSE 0)]

Count(seq, type) ==
  Cardinality({i \in DOMAIN seq : seq[i].type = type})

Types(seq) == [i \in DOMAIN seq |-> seq[i].type]

\* What pause() found: the mode, the elapsed time, the remaining time shown
\* and the instant of the call.
Snapshot(s, t) ==
  [mode |-> s.timerMode, elapsedTime |-> s.elapsedTime,
   remaining |-> getRemainingTime(s), at |-> t]

\* ---------------------------------------------------------------- actions
Init ==
  /\ now = 1
  /\ timer = InitialTimer
  /\ engine = InitialEngine
  /\ published = << >>
  /\ op = "init"
  /\ steps = 0
  /\ edges = NoEdges
  /\ prevOp = "init"
  /\ phaseReal = 0
  /\ atPause = Snapshot(InitialTimer, 0)
  /\ observed = << >>
  /\ exercise = InitialExercise
  /\ timeouts = << >>
  /\ timeoutId = 1
  /\ orch = InitialOrch
  /\ bus = InitialBus
  /\ aux = InitialAux

\* The stores as the subscribers of the events of one step find them:
\* seen holds, per event, the timer store at its emit.
ObservedTimers(seen) ==
  [i \in DOMAIN seen |->
     [timer |-> seen[i], exercise |-> exercise,
      timerBefore |-> timer, exerciseBefore |-> exercise]]

\* A store command issued at performance.now() = now, the re-render it
\* causes and the effect run of that render, lat milliseconds later.
Command(name, s, lat) ==
  LET r == RunEffect(timer, s, engine, now + lat) IN
  /\ steps < MaxSteps
  /\ steps' = steps + 1
  /\ op' = name
  /\ prevOp' = op
  /\ timer' = s
  /\ engine' = r.engine
  /\ published' = published \o r.emitted
  /\ observed' = observed \o ObservedTimers(r.seen)
  /\ now' = now + lat
  /\ edges' = CountEdge(edges, timer.timerMode, s.timerMode, name)
  /\ UNCHANGED <<activityVars, bus>>

Start(lat) ==
  /\ Command("start", startWork(timer, now), lat)
  /\ phaseReal' = lat
  /\ atPause' = atPause

Pause ==
  /\ Command("pause", pauseTimer(timer, now), 0)
  /\ phaseReal' = phaseReal
  /\ atPause' = IF timer.timerMode # PAUSED THEN Snapshot(timer, now)
                ELSE atPause

Resume(lat) ==
  /\ Command("resume", resumeTimer(timer, now), lat)
  /\ phaseReal' = phaseReal + lat
  /\ atPause' = atPause

Reset ==
  /\ Command("reset", resetTimer(timer, now), 0)
  /\ phaseReal' = 0
  /\ atPause' = atPause

\* The pending frame callback fires; the render that follows runs the
\* effect lat milliseconds after the callback read the clock.
Tick(lat) ==
  LET u == updateTimer(timer, engine, now)
      r == RunEffect(timer, u.timer, u.engine, now + lat)
      updated == now - engine.lastUpdateRef >= UPDATE_INTERVAL
  IN
  /\ engine.animationFrame
  /\ steps < MaxSteps
  /\ steps' = steps + 1
  /\ op' = "tick"
  /\ prevOp' = op
  /\ timer' = u.timer
  /\ engine' = r.engine
  /\ published' = published \o u.emitted \o r.emitted
  /\ observed' = observed \o ObservedTimers(u.seen \o r.seen)
  /\ now' = IF updated THEN now + lat ELSE now
  /\ edges' = CountEdge(edges, timer.timerMode, u.timer.timerMode, "tick")
  /\ phaseReal' = IF ~updated THEN phaseReal
                  ELSE IF u.timer.timerMode # timer.timerMode
                    THEN (IF Running(u.timer.timerMode) THEN lat ELSE 0)
                    ELSE phaseReal + lat
  /\ atPause' = atPause
  /\ UNCHANGED <<activityVars, bus>>

\* Real time passes and no callback of the program runs.
Advance(gap) ==
  /\ steps < MaxSteps
  /\ steps' = steps + 1
  /\ op' = "advance"
  /\ prevOp' = op
  /\ now' = now + gap
  /\ phaseReal' = IF Running(timer.timerMode) THEN phaseReal + gap
                  ELSE phaseReal
  /\ UNCHANGED <<timer, engine, published, edges, atPause, observed,
                 activityVars, bus>>

Next ==
  \/ \E lat \in Latency : Start(lat)
  \/ Pause
  \/ \E lat \in Latency : Resume(lat)
  \/ Reset
  \/ \E lat \in Latency : Tick(lat)
  \/ \E gap \in Gaps : Advance(gap)

Spec == Init /\ [][Next]_vars

\* ------------------------------------------------- the assembled program
\* The page mounting useTimerEngine and useExerciseOrchestrator over the
\* two stores, driven by the timer buttons, the frame callbacks, the
\* exercise commands and the timeouts.
MaxSysSteps == 7

SysGaps == {UPDATE_INTERVAL, BREAK_DURATION * MsPerSecond,
            WORK_DURATION * MsPerSecond}

CurrentWorld == World(exercise, timeouts, timeoutId)

\* Index of the timeout the host runs next: the earliest due, the first
\* created among equals.
EarliestTimeout(q) ==
  CHOOSE i \in DOMAIN q :
    \A j \in DOMAIN q :
      q[i].due < q[j].due \/ (q[i].due = q[j].due /\ i <= j)

RemoveAt(q, i) == SubSeq(q, 1, i - 1) \o SubSeq(q, i + 1, Len(q))

\* The callback of the timeout tm.
FireCallback(w, tm, pick) ==
  CASE tm.kind = "launch"    -> launchTimeout(w)
    [] tm.kind = "complete"  -> completeTimeout(w, tm)
    [] tm.kind = "window"    -> windowTimeout(w, tm, pick)
    [] tm.kind = "autoclose" -> autoCloseTimeout(w)

\* The clock is in a break, running or paused.
InBreak(s) ==
  \/ s.timerMode = BREAK_REMINDER
  \/ s.timerMode = PAUSED /\ s.currentPhase = PhaseBreak

\* One stimulus handled at time t: it leaves the timer store as tm1, the
\* engine refs as eng1 and the exercise world as w1, having emitted the
\* events `emitted` with the timer store as in `seen`; the render that
\* follows runs the effects of both hooks.  fired is the timeout whose
\* callback the stimulus was, if it was one.
SysCommit(name, tm1, w1, emitted, seen, t, fired, r, f) ==
  /\ steps < MaxSysSteps
  /\ steps' = steps + 1
  /\ op' = name
  /\ prevOp' = op
  /\ now' = t
  /\ timer' = tm1
  /\ engine' = r.engine
  /\ exercise' = f.w.x
  /\ timeouts' = f.w.q
  /\ timeoutId' = f.w.id
  /\ orch' = f.orch
  /\ published' = published \o emitted \o r.emitted \o f.emitted
  /\ observed' = observed
       \o [i \in DOMAIN (seen \o r.seen) |->
             [timer |-> (seen \o r.seen)[i], exercise |-> w1.x,
              timerBefore |-> timer, exerciseBefore |-> exercise]]
       \o [i \in DOMAIN f.seen |->
             [timer |-> tm1, exercise |-> f.seen[i],
              timerBefore |-> timer, exerciseBefore |-> exercise]]
  /\ aux' = [aux EXCEPT
               !.breakReactions =
                 (IF InBreak(tm1) /\ ~InBreak(timer) THEN 0 ELSE @)
                 + (IF ~orch.hasLaunchedForBreak
                         /\ f.orch.hasLaunchedForBreak THEN 1 ELSE 0),
               !.resetMark = IF name = "close" \/ fired.kind = "autoclose"
                               THEN w1.id ELSE @,
               !.launchReset = "none",
               !.fired = fired.kind,
               !.firedId = fired.id,
               !.pausedBy =
                 IF f.w.x.exerciseState # EX_PAUSED THEN "none"
                 ELSE IF exercise.exerciseState = EX_PAUSED THEN @
                 ELSE IF name = "exercise-pause" THEN "user"
                 ELSE "clock",
               !.run =
                 IF name = "launch" THEN "live"
                 ELSE IF name = "close" \/ fired.kind = "autoclose"
                   THEN "idle"
                 ELSE IF name = "complete"
                           /\ exercise.exerciseState = EX_RUNNING
                   THEN "signalled"
                 ELSE IF name = "tick" /\ timer.timerMode = BREAK_REMINDER
                           /\ tm1.timerMode = IDLE
                           /\ isExerciseActive(exercise)
                   THEN "abandoned"
                 ELSE @]
  /\ UNCHANGED <<edges, phaseReal, atPause, bus>>

SysStep(name, tm1, eng1, w1, emitted, seen, t, pick, fired) ==
  SysCommit(name, tm1, w1, emitted, seen, t, fired,
            RunEffect(timer, tm1, eng1, t),
            RunEffects(timer, exercise, tm1, orch, w1, t, pick))

\* TimerControl: the Start button, shown in Idle.
SysStart ==
  /\ timer.timerMode = IDLE
  /\ SysStep("start", startWork(timer, now), engine, CurrentWorld,
             << >>, << >>, now, NoExercise, NoTimeout)

\* TimerControl: the Pause button, shown in Working and BreakReminder.
SysPause ==
  /\ timer.timerMode \in {WORKING, BREAK_REMINDER}
  /\ SysStep("pause", pauseTimer(timer, now), engine, CurrentWorld,
             << >>, << >>, now, NoExercise, NoTimeout)

\* TimerControl: the Resume button, shown in Paused.
SysResume ==
  /\ timer.timerMode = PAUSED
  /\ \E pick \in SelectionPool(exercise.history) :
       SysStep("resume", resumeTimer(timer, now), engine, CurrentWorld,
               << >>, << >>, now, pick, NoTimeout)

\* TimerControl: the Reset button and its confirmation, shown in every
\* mode but Idle.
SysReset ==
  /\ timer.timerMode # IDLE
  /\ SysStep("reset", resetTimer(timer, now), engine, CurrentWorld,
             << >>, << >>, now, NoExercise, NoTimeout)

\* gap milliseconds pass with no timeout falling due, then the pending
\* frame callback runs.
SysTick(gap) ==
  LET u == updateTimer(timer, engine, now + gap) IN
  /\ engine.animationFrame
  /\ \A i \in DOMAIN timeouts : timeouts[i].due >= now + gap
  /\ \E pick \in SelectionPool(exercise.history) :
       SysStep("tick", u.timer, u.engine, CurrentWorld, u.emitted, u.seen,
               now + gap, pick, NoTimeout)

\* The host runs the timeout that is due next, at its due time.
SysFire ==
  /\ timeouts # << >>
  /\ LET i  == EarliestTimeout(timeouts)
         tm == timeouts[i]
         t  == IF tm.due > now THEN tm.due ELSE now
         w  == World(exercise, RemoveAt(timeouts, i), timeoutId)
     IN \E pick \in SelectionPool(exercise.history) :
          SysStep("fire", timer, engine,
                  FireCallback(w, tm, pick), << >>, << >>, t, pick, tm)

\* useManualExerciseLaunch.launchSpecificExercise
SysLaunch(exerciseType) ==
  /\ exerciseType \in ExerciseType
  /\ SysStep("launch", timer, engine,
             launchExercise(selectExercise(CurrentWorld, exerciseType),
                            exerciseType, now),
             << >>, << >>, now, NoExercise, NoTimeout)

\* ExerciseOverlay.handleComplete: the exercise on screen reports its end.
SysComplete ==
  /\ exercise.currentExercise # NoExercise
  /\ isExerciseActive(exercise)
  /\ SysStep("complete", timer, engine, handleComplete(CurrentWorld, now),
             << >>, << >>, now, NoExercise, NoTimeout)

\* The host delivers the completion callback of the run a second time, at
\* the instant of the first delivery.
SysCompleteAgain ==
  /\ exercise.currentExercise # NoExercise
  /\ exercise.exerciseState = EX_COMPLETING
  /\ \E i \in DOMAIN timeouts :
       /\ timeouts[i].kind = "autoclose"
       /\ timeouts[i].due = now + AUTO_CLOSE_DELAY
  /\ SysStep("complete-again", timer, engine,
             handleComplete(CurrentWorld, now),
             << >>, << >>, now, NoExercise, NoTimeout)

\* The overlay of the page is on screen.
isExerciseOverlayVisible(tm, x) ==
  /\ tm.timerMode = BREAK_REMINDER
  /\ \/ isExerciseActive(x)
     \/ x.exerciseState = EX_LAUNCHING
     \/ x.exerciseState = EX_COMPLETED

\* ExerciseOverlay: the Pause button, shown while the exercise is active
\* and not paused.
SysExercisePause ==
  /\ isExerciseOverlayVisible(timer, exercise)
  /\ isExerciseActive(exercise)
  /\ exercise.exerciseState # EX_PAUSED
  /\ SysStep("exercise-pause", timer, engine, pauseExercise(CurrentWorld),
             << >>, << >>, now, NoExercise, NoTimeout)

\* ExerciseOverlay: the Resume button, shown while the exercise is paused.
SysExerciseResume ==
  /\ isExerciseOverlayVisible(timer, exercise)
  /\ exercise.exerciseState = EX_PAUSED
  /\ SysStep("exercise-resume", timer, engine,
             resumeExercise(CurrentWorld),
             << >>, << >>, now, NoExercise, NoTimeout)

\* ExerciseOverlay.handleClose / handleCompletionDismiss
SysClose ==
  /\ exercise.exerciseState # EX_IDLE
  /\ SysStep("close", timer, engine, resetExercise(CurrentWorld),
             << >>, << >>, now, NoExercise, NoTimeout)

NextSystem ==
  \/ SysStart
  \/ SysPause
  \/ SysResume
  \/ SysReset
  \/ \E gap \in SysGaps : SysTick(gap)
  \/ SysFire
  \/ \E exerciseType \in ExerciseType : SysLaunch(exerciseType)
  \/ SysComplete
  \/ SysCompleteAgain
  \/ SysExercisePause
  \/ SysExerciseResume
  \/ SysClose

SpecSystem == Init /\ [][NextSystem]_vars

\* ------------------------------------------------ the exercise store alone
\* The store driven through its actions at arbitrary instants, and the
\* timeouts they set.
MaxActSteps == 6

\* ms between two commands, shorter than every delay
ActGap == LAUNCH_DELAY - UPDATE_INTERVAL

\* One store action or timeout callback at time t, leaving the world w1.
ActStep(name, w1, t, fired) ==
  /\ steps < MaxActSteps
  /\ steps' = steps + 1
  /\ op' = name
  /\ prevOp' = op
  /\ now' = t
  /\ exercise' = w1.x
  /\ timeouts' = w1.q
  /\ timeoutId' = w1.id
  /\ aux' = [aux EXCEPT
               !.launchReset =
                 IF name = "launch" /\ timeouts = << >> THEN "launched"
                 ELSE IF name = "reset" /\ @ = "launched" THEN "reset"
                 ELSE IF name \in {"fire", "wait"} THEN @
                 ELSE "none",
               !.resetMark = IF name = "reset" THEN timeoutId ELSE @,
               !.fired = fired.kind,
               !.firedId = fired.id,
               !.manualPick =
                 IF name = "select"
                   THEN IF isManualSelectionAvailable(exercise, now)
                          THEN w1.x.currentExercise ELSE NoExercise
                 ELSE IF name = "reset" THEN NoExercise
                 ELSE IF name = "launch" /\ w1.x.currentExercise # @
                   THEN NoExercise
                 ELSE @]
  /\ UNCHANGED <<timer, engine, published, observed, edges, phaseReal,
                 atPause, orch, bus>>

ActSelect(exerciseType) ==
  /\ exerciseType \in ExerciseType \cup {NoExercise}
  /\ ActStep("select", selectExercise(CurrentWorld, exerciseType), now,
             NoTimeout)

ActLaunch(exerciseType) ==
  /\ exerciseType \in ExerciseType
  /\ ActStep("launch", launchExercise(CurrentWorld, exerciseType, now), now,
             NoTimeout)

ActStart ==
  /\ ActStep("start", startExercise(CurrentWorld), now, NoTimeout)

ActPause ==
  /\ ActStep("pause", pauseExercise(CurrentWorld), now, NoTimeout)

ActResume ==
  /\ ActStep("resume", resumeExercise(CurrentWorld), now, NoTimeout)

ActComplete ==
  /\ ActStep("complete", completeExercise(CurrentWorld, now), now,
             NoTimeout)

ActReset ==
  /\ ActStep("reset", resetExercise(CurrentWorld), now, NoTimeout)

ActOpenWindow ==
  /\ ActStep("window", enableManualSelectionWindow(CurrentWorld, now), now,
             NoTimeout)

\* The host runs the timeout that is due next, at its due time.
ActFire ==
  /\ timeouts # << >>
  /\ LET i  == EarliestTimeout(timeouts)
         tm == timeouts[i]
         t  == IF tm.due > now THEN tm.due ELSE now
         w  == World(exercise, RemoveAt(timeouts, i), timeoutId)
     IN \E pick \in SelectionPool(exercise.history) :
          ActStep("fire", FireCallback(w, tm, pick), t, tm)

\* ActGap milliseconds pass with no timeout falling due.
ActWait ==
  /\ \A i \in DOMAIN timeouts : timeouts[i].due >= now + ActGap
  /\ ActStep("wait", CurrentWorld, now + ActGap, NoTimeout)

NextActivity ==
  \/ \E exerciseType \in ExerciseType \cup {NoExercise} :
       ActSelect(exerciseType)
  \/ \E exerciseType \in ExerciseType : ActLaunch(exerciseType)
  \/ ActStart
  \/ ActPause
  \/ ActResume
  \/ ActComplete
  \/ ActReset
  \/ ActOpenWindow
  \/ ActFire
  \/ ActWait

SpecActivity == Init /\ [][NextActivity]_vars

\* --------------------------------------------------- the Activities page
\* The page with its exercise cards and the overlay it mounts, over the
\* exercise store and the host's timeouts; no clock runs.
MaxOvSteps == 8

OvStep(name, w1, t, fired) ==
  /\ steps < MaxOvSteps
  /\ steps' = steps + 1
  /\ op' = name
  /\ prevOp' = op
  /\ now' = t
  /\ exercise' = w1.x
  /\ timeouts' = w1.q
  /\ timeoutId' = w1.id
  /\ aux' = [aux EXCEPT
               !.resetMark = IF name = "close" \/ fired.kind = "autoclose"
                               THEN w1.id ELSE @,
               !.fired = fired.kind,
               !.firedId = fired.id]
  /\ UNCHANGED <<timer, engine, published, observed, edges, phaseReal,
                 atPause, orch, bus>>

\* A card is clicked; the overlay, on screen unless the activity is Idle,
\* covers the cards.
OvStartExercise(exerciseType) ==
  /\ exerciseType \in ExerciseType
  /\ exercise.exerciseState = EX_IDLE
  /\ OvStep("launch", launchExercise(CurrentWorld, exerciseType, now), now,
            NoTimeout)

\* The exercise on screen reports its end.
OvComplete ==
  /\ exercise.currentExercise # NoExercise
  /\ isExerciseActive(exercise)
  /\ OvStep("complete", handleComplete(CurrentWorld, now), now, NoTimeout)

\* The close button, or the dismiss button of the completion screen.
OvClose ==
  /\ exercise.exerciseState # EX_IDLE
  /\ OvStep("close", resetExercise(CurrentWorld), now, NoTimeout)

OvFire ==
  /\ timeouts # << >>
  /\ LET i  == EarliestTimeout(timeouts)
         tm == timeouts[i]
         t  == IF tm.due > now THEN tm.due ELSE now
         w  == World(exercise, RemoveAt(timeouts, i), timeoutId)
     IN \E pick \in SelectionPool(exercise.history) :
          OvStep("fire", FireCallback(w, tm, pick), t, tm)

NextActivities ==
  \/ \E exerciseType \in ExerciseType : OvStartExercise(exerciseType)
  \/ OvComplete
  \/ OvClose
  \/ OvFire

SpecActivities == Init /\ [][NextActivities]_vars

\* ------------------------------------------------- the selection policy
\* The store as persist() rehydrates it: history and preferences come from
\* the storage, the rest is the initial state.
MaxSeedLen  == 3
MaxSelSteps == 2

\* Object.values(ExerciseType)
getAvailableExercises == <<BALL_TRACKING, NEAR_FAR_FOCUS, BLINK_EXERCISE>>

Histories(n) == UNION {[1..m -> ExerciseType] : m \in 0..n}

\* A history of n entries that runs through the kinds in turn.
LongHistory(n, shift) ==
  [i \in 1..n |-> getAvailableExercises[((i + shift) % 3) + 1]]

PersistedHistories ==
  Histories(MaxSeedLen)
    \cup {LongHistory(n, shift) :
            n \in {maxHistorySize - 1, maxHistorySize}, shift \in 0..2}

InitSelector ==
  /\ now = 1
  /\ timer = InitialTimer
  /\ engine = InitialEngine
  /\ published = << >>
  /\ op = "init"
  /\ steps = 0
  /\ edges = NoEdges
  /\ prevOp = "init"
  /\ phaseReal = 0
  /\ atPause = Snapshot(InitialTimer, 0)
  /\ observed = << >>
  /\ \E history \in PersistedHistories,
        preferredExercise \in ExerciseType \cup {NoExercise} :
       exercise = [InitialExercise EXCEPT
                     !.history = history,
                     !.preferences.preferredExercise = preferredExercise]
  /\ timeouts = << >>
  /\ timeoutId = 1
  /\ orch = InitialOrch
  /\ bus = InitialBus
  /\ aux = InitialAux

SelStep(name, w1) ==
  /\ steps < MaxSelSteps
  /\ steps' = steps + 1
  /\ op' = name
  /\ prevOp' = op
  /\ exercise' = w1.x
  /\ UNCHANGED <<now, timer, engine, published, observed, edges, phaseReal,
                 atPause, timeouts, timeoutId, orch, bus, aux>>

SelUpdateHistory(exerciseType) ==
  /\ exerciseType \in ExerciseType
  /\ SelStep("updateHistory", updateHistory(CurrentWorld, exerciseType))

SelSelectRandom ==
  /\ \E pick \in SelectionPool(exercise.history) :
       SelStep("selectRandom", selectRandomExercise(CurrentWorld, pick))

NextSelector ==
  \/ \E exerciseType \in ExerciseType : SelUpdateHistory(exerciseType)
  \/ SelSelectRandom

SpecSelector == InitSelector /\ [][NextSelector]_vars

\* ------------------------------------------------------ the emitter alone
BusSubscribe(eventType, listener) ==
  /\ bus' = subscribe(bus, eventType, listener)
  /\ op' = "subscribe"
  /\ aux' = [aux EXCEPT
               !.subscribed = @ \cup {<<eventType, listener>>},
               !.againSub = @ \/ <<eventType, listener>> \in aux.subscribed]
  /\ UNCHANGED <<now, timer, engine, published, prevOp, steps, edges,
                 phaseReal, atPause, observed, exercise, timeouts,
                 timeoutId, orch>>

\* The function subscribe returned, or unsubscribe itself.
BusUnsubscribe(eventType, listener) ==
  /\ bus' = unsubscribe(bus, eventType, listener)
  /\ op' = "unsubscribe"
  /\ aux' = [aux EXCEPT
               !.subscribed = @ \ {<<eventType, listener>>},
               !.againUnsub =
                 @ \/ <<eventType, listener>> \notin aux.subscribed]
  /\ UNCHANGED <<now, timer, engine, published, prevOp, steps, edges,
                 phaseReal, atPause, observed, exercise, timeouts,
                 timeoutId, orch>>

\* emit of an event of the given type while the listeners in `bad` throw.
BusEmit(eventType, bad) ==
  /\ bus' = emit(bus, eventType, bad)
  /\ op' = "emit"
  /\ UNCHANGED <<now, timer, engine, published, prevOp, steps, edges,
                 phaseReal, atPause, observed, activityVars>>

NextBus ==
  \/ \E eventType \in BusTypes, listener \in BusListeners :
       BusSubscribe(eventType, listener)
  \/ \E eventType \in BusTypes, listener \in BusListeners :
       BusUnsubscribe(eventType, listener)
  \/ \E eventType \in BusTypes, bad \in SUBSET BusListeners :
       BusEmit(eventType, bad)

SpecBus == Init /\ [][NextBus]_vars

TypeOK ==
  /\ timer.timerMode \in TimerMode
  /\ timer.elapsedTime \in Nat
  /\ timer.sessionCount \in Nat
  /\ engine.animationFrame \in BOOLEAN
  /\ engine.animationFrame => engine.accumulatedTimeRef = timer.elapsedTime

\* ----------------------------------------------------------------- claims
\* Time measured by the clock at the instant of a frame callback: what the
\* store holds plus what has passed since the anchor.
PendingDelta == now - engine.lastUpdateRef

WorkTargetReached ==
  /\ timer.timerMode = WORKING
  /\ PendingDelta >= UPDATE_INTERVAL
  /\ timer.elapsedTime + PendingDelta >= WORK_DURATION * MsPerSecond

BreakTargetReached ==
  /\ timer.timerMode = BREAK_REMINDER
  /\ PendingDelta >= UPDATE_INTERVAL
  /\ timer.elapsedTime + PendingDelta >= BREAK_DURATION * MsPerSecond

TypesEmitted == SubSeq(Types(published'), Len(published) + 1, Len(published'))

\* C1: a tick that brings the work elapsed to the work target moves the
\* clock to BreakReminder / break with elapsed 0, sessionCount unchanged,
\* and emits WorkComplete then BreakStart; a tick that brings the break
\* elapsed to the break target moves the clock to Idle, adds exactly 1 to
\* sessionCount and emits BreakComplete; in Idle no frame callback is
\* pending, so no tick changes the clock until the next start().
C1_CycleStep ==
  /\ (op' = "tick" /\ WorkTargetReached) =>
       /\ timer'.timerMode = BREAK_REMINDER
       /\ timer'.currentPhase = PhaseBreak
       /\ timer'.elapsedTime = 0
       /\ timer'.sessionCount = timer.sessionCount
       /\ TypesEmitted = <<WORK_COMPLETE, BREAK_START>>
  /\ (op' = "tick" /\ BreakTargetReached) =>
       /\ timer'.timerMode = IDLE
       /\ timer'.sessionCount = timer.sessionCount + 1
       /\ TypesEmitted = <<BREAK_COMPLETE>>
  /\ timer'.timerMode = IDLE => ~engine'.animationFrame
  /\ (op' = "tick" /\ timer.timerMode = IDLE) => timer' = timer

C1_FullCycle == [][C1_CycleStep]_vars

C1_Witness ==
  /\ op = "tick"
  /\ timer.timerMode = IDLE
  /\ timer.sessionCount = 1
  /\ Types(published) =
       <<WORK_START, WORK_COMPLETE, BREAK_START, BREAK_COMPLETE>>

\* C2: every phase transition is announced exactly once: as many WorkStart
\* events as Idle-to-Working transitions, as many WorkComplete and as many
\* BreakStart events as Working-to-BreakReminder transitions, as many
\* BreakComplete events as BreakReminder-to-Idle transitions by timeout.
C2_ExactlyOnce ==
  /\ Count(published, WORK_START) = edges.idleToWorking
  /\ Count(published, WORK_COMPLETE) = edges.workingToBreak
  /\ Count(published, BREAK_START) = edges.workingToBreak
  /\ Count(published, BREAK_COMPLETE) = edges.breakTimeout

\* C3: drift compensation: the elapsed time a tick records while the clock
\* stays in its running phase equals the real time spent running in that
\* phase up to that tick.
C3_DriftStep ==
  (/\ op' = "tick"
   /\ Running(timer.timerMode)
   /\ timer'.timerMode = timer.timerMode
   /\ timer'.elapsedTime # timer.elapsedTime)
  => timer'.elapsedTime = phaseReal

C3_NoTimeLost == [][C3_DriftStep]_vars

\* C4: pause() leaves elapsed as it is, nothing is added to elapsed while
\* the clock is Paused and no frame callback is pending then, and resume()
\* after a pause from Working or BreakReminder restores that mode with
\* the elapsed time and the remaining time of the moment of the pause.
C4_PauseStep ==
  /\ op' = "pause" => timer'.elapsedTime = timer.elapsedTime
  /\ (timer.timerMode = PAUSED /\ timer'.timerMode = PAUSED) =>
       timer'.elapsedTime = timer.elapsedTime
  /\ timer'.timerMode = PAUSED => ~engine'.animationFrame
  /\ (op' = "resume" /\ timer.timerMode = PAUSED /\ Running(atPause.mode)) =>
       /\ timer'.timerMode = atPause.mode
       /\ timer'.elapsedTime = timer.elapsedTime
       /\ timer'.elapsedTime = atPause.elapsedTime
       /\ getRemainingTime(timer') = atPause.remaining

C4_PauseFreezesElapsed == [][C4_PauseStep]_vars

C4_Witness ==
  /\ op = "resume"
  /\ prevOp = "advance"
  /\ atPause.mode = WORKING
  /\ atPause.elapsedTime > 0
  /\ now - atPause.at >= BREAK_DURATION * MsPerSecond
  /\ timer.timerMode = WORKING
  /\ timer.elapsedTime = atPause.elapsedTime

\* C5: in every reachable state phase = null if and only if mode = Idle.
C5_PhaseNullIffIdle ==
  (timer.currentPhase = PhaseNull) <=> (timer.timerMode = IDLE)

\* C6: start() called in Working, BreakReminder or Paused is a no-op: it
\* leaves mode, phase, elapsed and the anchor unchanged and publishes no
\* event.
C6_StartStep ==
  (op' = "start" /\ timer.timerMode # IDLE) =>
    /\ timer'.timerMode = timer.timerMode
    /\ timer'.currentPhase = timer.currentPhase
    /\ timer'.elapsedTime = timer.elapsedTime
    /\ timer'.startTimestamp = timer.startTimestamp
    /\ published' = published

C6_StartOnlyFromIdle == [][C6_StartStep]_vars

\* C7: pause() in Idle and resume() in a mode other than Paused leave the
\* whole clock state unchanged and publish no event.
C7_InvalidStep ==
  (\/ op' = "pause" /\ timer.timerMode = IDLE
   \/ op' = "resume" /\ timer.timerMode # PAUSED)
  => (timer' = timer /\ published' = published)

C7_InvalidCommandsIgnored == [][C7_InvalidStep]_vars

\* C8: the second of two pause() calls in a row changes nothing: the clock
\* state after it equals the state after the first call and it publishes
\* nothing.
C8_SecondPauseStep ==
  (op = "pause" /\ op' = "pause") =>
    (timer' = timer /\ engine' = engine /\ published' = published)

C8_PauseIdempotent == [][C8_SecondPauseStep]_vars

C8_Witness ==
  /\ op = "pause"
  /\ prevOp = "pause"
  /\ Running(atPause.mode)
  /\ atPause.elapsedTime > 0
  /\ timer.timerMode = PAUSED
  /\ timer.elapsedTime = atPause.elapsedTime

\* C9: reset() from any clock state leaves mode = Idle, phase = null,
\* elapsed = 0, the anchor cleared and sessionCount as it was.
C9_ResetStep ==
  op' = "reset" =>
    /\ timer'.timerMode = IDLE
    /\ timer'.currentPhase = PhaseNull
    /\ timer'.elapsedTime = 0
    /\ timer'.startTimestamp = NullStamp
    /\ timer'.sessionCount = timer.sessionCount

C9_ResetFromAnyState == [][C9_ResetStep]_vars

C9_Witness ==
  /\ op = "reset"
  /\ prevOp = "pause"
  /\ Running(atPause.mode)
  /\ atPause.elapsedTime > 0
  /\ timer.timerMode = IDLE
  /\ timer.elapsedTime = 0

\* C10: pause() and resume() never add an event to the stream of published
\* events.
C10_PauseResumeStep ==
  op' \in {"pause", "resume"} => published' = published

C10_PauseResumeSilent == [][C10_PauseResumeStep]_vars

\* The last completion record matches the event ev.
RecordedFor(x, ev) ==
  /\ x.completions # << >>
  /\ LET c == x.completions[Len(x.completions)]
     IN /\ c.exerciseType = ev.exerciseType
        /\ c.sessionId = ev.sessionId
        /\ c.duration = ev.duration

\* What a subscriber reading the stores during the emit of published[i]
\* must find.
CommittedAt(i) ==
  LET ev == published[i]
      ob == observed[i]
  IN /\ ev.type \in {WORK_COMPLETE, BREAK_START} =>
          /\ ob.timer.timerMode = BREAK_REMINDER
          /\ ob.timer.elapsedTime = 0
     /\ ev.type = BREAK_COMPLETE =>
          /\ ob.timer.timerMode = IDLE
          /\ ob.timer.sessionCount = ob.timerBefore.sessionCount + 1
     /\ ev.type = EXERCISE_COMPLETE =>
          /\ RecordedFor(ob.exercise, ev)
          /\ Len(ob.exercise.completions)
               = Len(ob.exerciseBefore.completions) + 1

\* C11: when a notification is delivered the state change it announces is
\* already in the stores: at WorkComplete and BreakStart the clock is in
\* BreakReminder with elapsed 0, at BreakComplete it is in Idle with
\* sessionCount incremented, at ActivityComplete the completion record has
\* been appended.
C11_CommittedBeforeFanOut ==
  /\ Len(observed) = Len(published)
  /\ \A i \in DOMAIN published : CommittedAt(i)

\* A run that delivered both a BreakStart and an ActivityComplete.
C11_Witness ==
  {BREAK_START, EXERCISE_COMPLETE}
    \subseteq {published[i].type : i \in DOMAIN published}

\* Number of calls of the listener l in the sequence of calls.
Calls(invoked, l) == Cardinality({i \in DOMAIN invoked : invoked[i] = l})

\* The step is an emit of an event of type ty.
EmitStep(ty) == op' = "emit" /\ bus'.last.type = ty

\* C12: when a subscriber throws during the delivery of an event, every
\* other subscriber of that kind is still called exactly once, subscribers
\* of other kinds are not called, emit returns normally, and the stores
\* are as they were before the emit.
C12_IsolationStep ==
  \A ty \in BusTypes :
    EmitStep(ty) =>
      /\ \A l \in BusListeners :
           Calls(bus'.last.invoked, l)
             = IF \E i \in DOMAIN bus.listeners[ty] :
                    bus.listeners[ty][i] = l
                 THEN 1 ELSE 0
      /\ bus'.last.outcome = "returned"
      /\ bus'.listeners = bus.listeners
      /\ timer' = timer
      /\ exercise' = exercise

C12_SubscriberIsolation == [][C12_IsolationStep]_vars

\* An emit to three subscribers during which the first one called threw.
C12_Witness ==
  /\ op = "emit"
  /\ Len(bus.last.invoked) = 3
  /\ bus.last.invoked[1] \in bus.last.threw
  /\ bus.last.outcome = "returned"

\* The step moves the clock from Working into BreakReminder.
BreakStartStep ==
  timer.timerMode = WORKING /\ timer'.timerMode = BREAK_REMINDER

\* C13: every step in which the clock enters BreakReminder from Working,
\* the activity being Idle, leaves the activity launched with the automatic
\* pick: its state is Launching and its selected kind is one the selector
\* may pick.
C13_LaunchStep ==
  (BreakStartStep /\ exercise.exerciseState = EX_IDLE) =>
    /\ exercise'.exerciseState = EX_LAUNCHING
    /\ exercise'.currentExercise \in SelectionPool(exercise.history)

C13_BreakStartLaunches == [][C13_LaunchStep]_vars

\* C14: while the clock is in a break, running or paused, the break-start
\* reaction has run exactly once since the break was entered.
C14_ExactlyOncePerBreak ==
  InBreak(timer) => aux.breakReactions = 1

\* C15: whenever the clock is in Idle the once-per-break latch is clear.
C15_LatchClearedInIdle ==
  timer.timerMode = IDLE => ~orch.hasLaunchedForBreak

\* The step ran the callback of a timeout of one of the given kinds.
FiredStep(kinds) == aux'.fired \in kinds /\ steps' = steps + 1

\* C16: a Launching-to-Running or Completing-to-Completed callback that was
\* scheduled before the last reset of the activity changes nothing in the
\* store when it runs: neither the state nor the history.
C16_StaleStep ==
  (FiredStep({"launch", "complete"}) /\ aux'.firedId < aux.resetMark) =>
    exercise' = exercise

C16_NoStaleTransition == [][C16_StaleStep]_vars

C18_ExpiryStep ==
  (FiredStep({"window"}) /\ exercise' # exercise) =>
    /\ exercise.selectionState = MANUAL_OVERRIDE
    /\ exercise.manualSelectionEndTime = Stamp(now')

C18_ExpiryStaleSafe == [][C18_ExpiryStep]_vars

\* The expiry callback of a window closed by a reset has just run while a
\* window opened after that reset is open, and has left it open.
C18_Witness ==
  /\ aux.fired = "window"
  /\ aux.firedId < aux.resetMark
  /\ exercise.selectionState = MANUAL_OVERRIDE
  /\ exercise.manualSelectionEndTime # NullStamp
  /\ exercise.manualSelectionEndTime # Stamp(now)

\* C19: a launch issued while the activity is not Idle changes nothing and
\* schedules no timeout.
C19_LaunchStep ==
  (op' = "launch" /\ steps' = steps + 1
     /\ exercise.exerciseState # EX_IDLE) =>
    /\ exercise' = exercise
    /\ timeouts' = timeouts

C19_LaunchOnlyFromIdle == [][C19_LaunchStep]_vars

\* C20: whenever the activity is not Idle it has a selected kind.
C20_NonIdleHasSelection ==
  exercise.exerciseState # EX_IDLE => exercise.currentExercise # NoExercise

\* The step is the store action or stimulus of the given name.
CommandStep(name) == op' = name /\ steps' = steps + 1

\* C21: the completion signal acts only on a Running activity: signalled
\* in any other state it changes nothing in the store and schedules no
\* timeout.
C21_SignalStep ==
  (CommandStep("complete") /\ exercise.exerciseState # EX_RUNNING) =>
    /\ exercise' = exercise
    /\ timeouts' = timeouts

C21_CompleteOnlyFromRunning == [][C21_SignalStep]_vars

\* C22: pause() turns Running into Paused and resume() turns Paused into
\* Running, selected kept; in every other state each of them leaves the
\* store as it was.
C22_PauseResumeStep ==
  /\ CommandStep("pause") =>
       exercise' = IF exercise.exerciseState = EX_RUNNING
                     THEN [exercise EXCEPT !.exerciseState = EX_PAUSED]
                     ELSE exercise
  /\ CommandStep("resume") =>
       exercise' = IF exercise.exerciseState = EX_PAUSED
                     THEN [exercise EXCEPT !.exerciseState = EX_RUNNING]
                     ELSE exercise
  /\ (CommandStep("pause") \/ CommandStep("resume")) =>
       timeouts' = timeouts

C22_PauseResumeGuarded == [][C22_PauseResumeStep]_vars

\* A pause() and then a resume() were issued during Launching and the
\* activity is still Launching.
C22_Witness ==
  /\ prevOp = "pause"
  /\ op = "resume"
  /\ exercise.exerciseState = EX_LAUNCHING

\* C23: whenever the clock is Paused the activity is not Running.
C23_PauseFlagsInSync ==
  timer.timerMode = PAUSED => exercise.exerciseState # EX_RUNNING

\* C24: an activity paused with its own pause button is still Paused after
\* the clock, paused later, is resumed.
C24_ResumeStep ==
  (CommandStep("resume") /\ timer.timerMode = PAUSED
     /\ exercise.exerciseState = EX_PAUSED /\ aux.pausedBy = "user") =>
    exercise'.exerciseState = EX_PAUSED

C24_IndependentPauseKept == [][C24_ResumeStep]_vars

\* What has been recorded of activity runs so far: history entries,
\* completion records, ActivityComplete events.
Recorded(x, pub) ==
  << Len(x.history), Len(x.completions), Count(pub, EXERCISE_COMPLETE) >>

\* C25: of a run that a break timeout found Launching, Running or Paused
\* nothing is recorded: as long as that run is the last one launched, no
\* step adds a history entry, a completion record or an ActivityComplete
\* event.
C25_AbandonedStep ==
  (aux.run = "abandoned" /\ aux'.run = "abandoned") =>
    Recorded(exercise', published') = Recorded(exercise, published)

C25_TimeoutNotRecorded == [][C25_AbandonedStep]_vars

\* C26: once the timeouts pending after a break timeout that found the
\* activity Launching, Running or Paused have all run, and no activity
\* command has been issued, the activity is Idle with nothing selected.
C26_AbandonedIsReset ==
  (aux.run = "abandoned" /\ timeouts = << >>) =>
    /\ exercise.exerciseState = EX_IDLE
    /\ exercise.currentExercise = NoExercise

\* C27: a run that signalled its completion while Running is recorded
\* exactly once: the step that takes it from Completing to Completed adds
\* one history entry, one completion record and one ActivityComplete
\* event, and while it stays Completed no step adds any of the three.
C27_RecordStep ==
  /\ (aux.run = "signalled" /\ aux'.run = "signalled"
        /\ exercise.exerciseState = EX_COMPLETING
        /\ exercise'.exerciseState = EX_COMPLETED) =>
       Recorded(exercise', published')
         = [i \in 1..3 |-> Recorded(exercise, published)[i] + 1]
  /\ (aux.run = "signalled" /\ aux'.run = "signalled"
        /\ exercise.exerciseState = EX_COMPLETED) =>
       Recorded(exercise', published') = Recorded(exercise, published)

C27_RecordedExactlyOnce == [][C27_RecordStep]_vars

\* C28: when the break-start reaction has run, with the automatic pick
\* obtained and no manual pick made yet, the selection window is open:
\* manual selection is available and the window's deadline lies ahead.
C28_WindowStep ==
  (BreakStartStep /\ ~orch.hasLaunchedForBreak) =>
    /\ isManualSelectionAvailable(exercise', now')
    /\ exercise'.manualSelectionEndTime
         = Stamp(now' + manualSelectionWindowDuration)
    /\ exercise'.currentExercise # NoExercise

C28_WindowStaysOpen == [][C28_WindowStep]_vars

\* C29: a kind picked by hand while the selection window is open stays the
\* selected kind until a reset, another pick or the launch of another kind
\* replaces it; the expiry callback of the window does not overwrite it.
C29_ManualPickKept ==
  aux.manualPick # NoExercise => exercise.currentExercise = aux.manualPick

\* the window has expired after a pick made by hand while it was open
C29_Witness ==
  /\ aux.manualPick # NoExercise
  /\ aux.fired = "window"
  /\ aux.firedId >= aux.resetMark
  /\ now >= manualSelectionWindowDuration

\* C30: a selection by hand made while no selection window is open (never
\* opened, expired, or closed by a reset or an earlier pick) is ignored:
\* the selected kind and the state of the activity stay as they were.
C30_SelectStep ==
  (CommandStep("select") /\ ~isManualSelectionAvailable(exercise, now)) =>
    /\ exercise'.currentExercise = exercise.currentExercise
    /\ exercise'.exerciseState = exercise.exerciseState

C30_SelectOnlyInWindow == [][C30_SelectStep]_vars

\* C31: when the expiry callback of the selection window that is in force
\* runs, no pick having been made by hand, it commits the automatic pick and
\* closes the window: afterwards a kind is selected, the end time of the
\* window is null, selection by hand is no longer available, and the
\* activity is not launched again.
C31_ExpiryStep ==
  (FiredStep({"window"})
     /\ exercise.manualSelectionEndTime = Stamp(now')) =>
    /\ exercise'.currentExercise # NoExercise
    /\ exercise'.manualSelectionEndTime = NullStamp
    /\ ~isManualSelectionAvailable(exercise', now')
    /\ exercise'.exerciseState = exercise.exerciseState
    /\ \A i \in DOMAIN timeouts' : timeouts'[i].id < timeoutId

C31_ExpiryCommitsPick == [][C31_ExpiryStep]_vars

\* C32 as stated: recording a completion into a history of at most
\* historySize entries leaves at most historySize entries.
C32_DepthStep ==
  (CommandStep("updateHistory") /\ Len(exercise.history) <= historySize) =>
    Len(exercise'.history) <= historySize

C32_RecordStep ==
  CommandStep("updateHistory") =>
    LET old  == exercise.history
        new  == exercise'.history
        drop == Len(old) + 1 - Len(new)
    IN /\ Len(new) <= maxHistorySize
       /\ drop = (IF Len(old) = maxHistorySize THEN 1 ELSE 0)
       /\ \A i \in 1..(Len(new) - 1) : new[i] = old[i + drop]

RecentKinds(history, n) ==
  {history[i] : i \in {j \in DOMAIN history : j > Len(history) - n}}

\* C33: the automatic pick is the preferred kind when one is configured;
\* otherwise it is a kind that does not occur among the most recent
\* min(historySize, number of kinds - 1) entries of the history, or any
\* kind if that exclusion leaves none: a kind is always picked.
C33_PickStep ==
  CommandStep("selectRandom") =>
    LET preferred == exercise.preferences.preferredExercise
        depth  == IF historySize < Cardinality(ExerciseType) - 1
                    THEN historySize ELSE Cardinality(ExerciseType) - 1
        recent == RecentKinds(exercise.history, depth)
    IN IF preferred # NoExercise
         THEN exercise'.currentExercise = preferred
         ELSE /\ exercise'.currentExercise \in ExerciseType
              /\ ExerciseType \ recent # {} =>
                   exercise'.currentExercise \notin recent

C33_PickAutomatic == [][C33_PickStep]_vars

\* A pick has been made, no kind preferred, from a history whose two most
\* recent entries differ, after an older entry of the kind picked.
C33_Witness ==
  /\ op = "selectRandom"
  /\ exercise.preferences.preferredExercise = NoExercise
  /\ Cardinality(RecentKinds(exercise.history, historySize)) = 2
  /\ exercise.currentExercise \notin RecentKinds(exercise.history, historySize)
  /\ exercise.currentExercise \in RecentKinds(exercise.history, 3)

\* C34: whenever the clock is Idle, initially and after every reset, the
\* remaining time handed to the display is the full work duration, 20:00.
C34_IdleShowsWorkDuration ==
  timer.timerMode = IDLE =>
    /\ getRemainingTime(timer) = WORK_DURATION
    /\ formatTime(getRemainingTime(timer)) =
         [mins |-> <<2, 0>>, secs |-> <<0, 0>>]

\* C35: sessionCount never decreases; every change of it is an increment by
\* one in a step that publishes a BreakComplete, and it never exceeds the
\* number of work phases that ran to their target (WorkComplete events): no
\* sequence of commands and ticks increments it without a completed work
\* phase.
C35_SessionStep ==
  /\ timer'.sessionCount \in {timer.sessionCount, timer.sessionCount + 1}
  /\ timer'.sessionCount # timer.sessionCount =>
       /\ Count(published', BREAK_COMPLETE)
            = Count(published, BREAK_COMPLETE) + 1
       /\ timer'.sessionCount <= Count(published', WORK_COMPLETE)

C35_SessionsAreFullCycles == [][C35_SessionStep]_vars

\* C36: a reset of the clock never sets an activity running: an activity
\* that is not Running when the clock is reset, one paused with the clock
\* among them, is not Running after the reset.
C36_ResetStep ==
  (CommandStep("reset") /\ exercise.exerciseState # EX_RUNNING) =>
    exercise'.exerciseState # EX_RUNNING

C36_ResetNeverResumes == [][C36_ResetStep]_vars

\* C37: the grace-period callback scheduled at the completion of a run
\* resets only that run: when it runs after the overlay has been dismissed
\* and it finds an activity Launching, Running or Paused, which has been
\* launched since, it leaves that activity as it is.
C37_GraceStep ==
  (FiredStep({"autoclose"}) /\ aux'.firedId < aux.resetMark
     /\ isExerciseActive(exercise)) =>
    exercise' = exercise

C37_GraceResetsOwnRun == [][C37_GraceStep]_vars

\* C38: a tick causes at most one phase transition and discards overshoot:
\* however large the measured delta, a tick that ends the work phase leaves
\* the clock in BreakReminder with elapsed time 0, never in Idle; and a
\* BreakComplete is published only after the break has run for its full
\* duration.
C38_TickStep ==
  /\ (CommandStep("tick") /\ timer.timerMode = WORKING
        /\ timer'.timerMode # WORKING) =>
       /\ timer'.timerMode = BREAK_REMINDER
       /\ timer'.currentPhase = PhaseBreak
       /\ timer'.elapsedTime = 0
       /\ Count(published', BREAK_COMPLETE) = Count(published, BREAK_COMPLETE)
  /\ Count(published', BREAK_COMPLETE) > Count(published, BREAK_COMPLETE) =>
       phaseReal >= BREAK_DURATION * MsPerSecond

C38_OneTransitionPerTick == [][C38_TickStep]_vars

\* A tick whose delta is a whole work interval beyond the work target has
\* ended the work phase.
C38_Witness ==
  /\ op = "tick"
  /\ prevOp = "advance"
  /\ timer.timerMode = BREAK_REMINDER
  /\ Count(published, WORK_COMPLETE) = 1
  /\ now > 2 * WORK_DURATION * MsPerSecond

\* C39: an emit invokes a listener, once, if and only if the calls of
\* subscribe and unsubscribe made so far leave it subscribed to the kind of
\* the event: a second subscription of the same listener to the same kind
\* adds no second invocation, an unsubscribed listener is not invoked by
\* later emits, and unsubscribing it once more changes nothing for the
\* listeners still subscribed.
C39_EmitStep ==
  \A ty \in BusTypes :
    EmitStep(ty) =>
      \A l \in BusListeners :
        Calls(bus'.last.invoked, l)
          = IF <<ty, l>> \in aux.subscribed THEN 1 ELSE 0

C39_InvokedIffSubscribed == [][C39_EmitStep]_vars

\* An emit has invoked the one listener still subscribed, a listener having
\* subscribed twice to a kind and a listener having been unsubscribed twice.
C39_Witness ==
  /\ op = "emit"
  /\ aux.againSub
  /\ aux.againUnsub
  /\ Len(bus.last.invoked) = 1
  /\ Cardinality(aux.subscribed) >= 1

====
